---- MODULE Spec2Model ----
(***************************************************************************)
(* KFPMS offline mutation queue and synchronisation.                       *)
(*                                                                         *)
(* Client: frontend/src/sync.js (queueOperation, syncOfflineData),         *)
(* frontend/src/db.js (Dexie tables), the list components that trigger a   *)
(* sync from their useEffect, and the forms that enqueue while offline.    *)
(* Server: the Django REST ModelViewSets and serializers of api/.          *)
(***************************************************************************)
EXTENDS Integers, Sequences, FiniteSets, TLC

\* ---------------------------------------------------------------- bounds
MaxEnq == 1        \* queueOperation calls per behaviour of Spec
BatchEnq == 2      \* queueOperation calls per behaviour of SpecBatch
MaxStarts == 2     \* executions of syncOfflineData that find records, per behaviour
MaxRuns == 2       \* executions of syncOfflineData alive at once
MaxSkew == 1       \* milliseconds the device clock is set within
MaxDirect == 1     \* form submissions that take the online branch
MaxReq == 2        \* requests of other API clients per behaviour of SpecApi
MaxBatch == 2      \* entries in one request to /api/sync/

\* Date.now() at the first reading of the clock; far above any server id.
ClockStart == 100

Models == {"Beneficiary", "Fund", "Transaction"}
Views == {"BeneficiaryList", "FundList", "TransactionList"}
Vals == {1, 2}
NoId == 0
Slots == 1..MaxRuns

\* The EntityMirror tables a list component rewrites after its fetch.
Fetched(v) ==
  CASE v = "BeneficiaryList" -> {"Beneficiary"}
    [] v = "FundList" -> {"Fund"}
    [] v = "TransactionList" -> {"Transaction", "Fund"}

VARIABLES
  now,       \* device clock, Date.now()
  online,    \* navigator.onLine / connectivity
  queue,     \* db.syncQueue: set of records, keyed by id
  mirror,    \* db.beneficiaries / db.funds / db.transactions, keyed by id
  srv,       \* Canonical Store tables
  nextId,    \* Canonical Store auto-increment counters
  runs,      \* the executions of syncOfflineData (and of the fetch that called it)
  comp,      \* the mounted list component: isOnline state, pending effect
  token,     \* localStorage 'token' is set
  app,       \* App: isAuthenticated, and the verification request of checkAuth
  hist       \* history: what has happened so far (not program state)

vars == <<now, online, queue, mirror, srv, nextId, runs, comp, token, app, hist>>

\* ProtectedRoute renders its children.
Shown == app.isAuthenticated = "yes"

Ids(rows) == {r.id : r \in rows}
Row(rows, id) == CHOOSE r \in rows : r.id = id
NoRow == [id |-> NoId, val |-> 0, fund |-> NoId]
NoRec == [id |-> NoId, operation |-> "none", model |-> "none", data |-> NoRow, timestamp |-> 0]

\* ------------------------------------------------------------ Dexie tables
\* Table.add with an explicit key: fails (ConstraintError) when the key exists.
CanAdd(rows, id) == id \notin Ids(rows)
\* Variant: the add is acknowledged and nothing is stored.
TableAddVolatile(rows, r) == rows
TableAdd(rows, r) == rows \cup {r}
\* Table.put: insert or replace by key.
TablePut(rows, r) == {x \in rows : x.id # r.id} \cup {r}
\* Table.delete: no error when the key is absent.
TableDelete(rows, id) == {x \in rows : x.id # id}

\* ----------------------------------------------------------- sort of a run
\* Table.toArray(): the records in primary-key order.
RECURSIVE ToArray(_)
ToArray(q) ==
  IF q = {} THEN <<>>
  ELSE LET r == CHOOSE x \in q : \A y \in q : x.id <= y.id
       IN <<r>> \o ToArray(q \ {r})

\* Insert r into a sequence sorted by timestamp, after every record whose
\* timestamp is not later (Array.prototype.sort is stable).
RECURSIVE InsertByTimestamp(_, _)
InsertByTimestamp(s, r) ==
  IF s = <<>> THEN <<r>>
  ELSE IF Head(s).timestamp <= r.timestamp
       THEN <<Head(s)>> \o InsertByTimestamp(Tail(s), r)
       ELSE <<r>> \o s

RECURSIVE SortByTimestamp(_)
SortByTimestamp(s) ==
  IF s = <<>> THEN <<>>
  ELSE InsertByTimestamp(SortByTimestamp(SubSeq(s, 1, Len(s) - 1)), s[Len(s)])

\* -------------------------------------------------------- Canonical Store
\* Serializer validation of a create / update payload against the store S.
\* FundSerializer.validate_amount: amount > 0.  TransactionSerializer: the
\* fund must exist (primary-key related field) and amount <= fund.amount.
Validate(m, d, S) ==
  CASE m = "Beneficiary" -> TRUE
    [] m = "Fund" -> d.val > 0
    [] m = "Transaction" ->
         /\ d.fund \in Ids(S["Fund"])
         /\ ~(d.val > Row(S["Fund"], d.fund).val)

Rejected(S, N) == [srv |-> S, nextId |-> N, ok |-> FALSE, row |-> NoRow]

\* POST /api/<model>s/ : ModelViewSet.create, the id is the next auto-increment.
ServerCreate(m, d, S, N) ==
  IF Validate(m, d, S)
  THEN LET row == [id |-> N[m], val |-> d.val, fund |-> d.fund]
       IN [srv |-> [S EXCEPT ![m] = @ \cup {row}],
           nextId |-> [N EXCEPT ![m] = @ + 1], ok |-> TRUE, row |-> row]
  ELSE Rejected(S, N)

\* PUT /api/<model>s/<id>/ : ModelViewSet.update, 404 when the id is unknown;
\* the id in the body is ignored.
ServerUpdate(m, id, d, S, N) ==
  IF id \in Ids(S[m]) /\ Validate(m, d, S)
  THEN LET row == [id |-> id, val |-> d.val, fund |-> d.fund]
       IN [srv |-> [S EXCEPT ![m] = {x \in @ : x.id # id} \cup {row}],
           nextId |-> N, ok |-> TRUE, row |-> row]
  ELSE Rejected(S, N)

\* DELETE /api/<model>s/<id>/ : ModelViewSet.destroy, 404 when the id is
\* unknown; Transaction.fund is on_delete=CASCADE.
ServerDelete(m, id, S, N) ==
  IF id \in Ids(S[m])
  THEN [srv |-> [x \in Models |->
                   IF x = m THEN {r \in S[x] : r.id # id}
                   ELSE IF x = "Transaction" /\ m = "Fund"
                        THEN {r \in S[x] : r.fund # id}
                        ELSE S[x]],
        nextId |-> N, ok |-> TRUE, row |-> NoRow]
  ELSE Rejected(S, N)

\* The request syncOfflineData sends for a queued record, as the server handles it.
ServerApply(op, S, N) ==
  CASE op.operation = "create" -> ServerCreate(op.model, op.data, S, N)
    [] op.operation = "update" -> ServerUpdate(op.model, op.data.id, op.data, S, N)
    [] op.operation = "delete" -> ServerDelete(op.model, op.data.id, S, N)

\* ------------------------------------------- partial update, /api/sync/
\* A field the payload does not carry.
Absent == -1

\* The value of field f after a partial update of row old with payload d.
Field(d, f, old) == IF d[f] = Absent THEN old[f] ELSE d[f]

\* Serializer validation with partial=True: only the fields in the payload
\* are validated.  TransactionSerializer.validate reads data.get('fund'):
\* without the fund field the amount is not compared with anything; with the
\* fund field and without the amount the comparison raises.
ValidatePartial(m, d, S) ==
  CASE m = "Beneficiary" -> TRUE
    [] m = "Fund" -> d.val = Absent \/ d.val > 0
    [] m = "Transaction" ->
         \/ d.fund = Absent
         \/ /\ d.fund \in Ids(S["Fund"])
            /\ d.val # Absent
            /\ ~(d.val > Row(S["Fund"], d.fund).val)

\* PATCH /api/<model>s/<id>/ (ModelViewSet.partial_update) and the update
\* branch of SyncView._process_<model>: serializer(instance, data, partial=True).
ServerPatch(m, id, d, S, N) ==
  IF id \in Ids(S[m]) /\ ValidatePartial(m, d, S)
  THEN LET old == Row(S[m], id)
           row == [id |-> id, val |-> Field(d, "val", old), fund |-> Field(d, "fund", old)]
       IN [srv |-> [S EXCEPT ![m] = {x \in @ : x.id # id} \cup {row}],
           nextId |-> N, ok |-> TRUE, row |-> row]
  ELSE Rejected(S, N)

\* SyncQueueSerializer: action is one of ACTION_CHOICES, model_name one of
\* the three models.
EntryValid(e) ==
  /\ e.action \in {"create", "update", "delete"}
  /\ e.model_name \in Models

\* SyncView._process_beneficiary / _process_fund / _process_transaction.
SyncProcess(e, S, N) ==
  CASE e.action = "create" -> ServerCreate(e.model_name, e.data, S, N)
    [] e.action = "update" -> ServerPatch(e.model_name, e.data.id, e.data, S, N)
    [] e.action = "delete" -> ServerDelete(e.model_name, e.data.id, S, N)

\* Variant that takes any action other than create and delete for an update.
EntryOutcomeLenient(e, S, N) ==
  IF e.model_name \notin Models THEN Rejected(S, N)
  ELSE CASE e.action = "create" -> ServerCreate(e.model_name, e.data, S, N)
         [] e.action = "delete" -> ServerDelete(e.model_name, e.data.id, S, N)
         [] OTHER -> ServerPatch(e.model_name, e.data.id, e.data, S, N)

\* One pass of the loop body of SyncView.post: an entry the serializer
\* refuses is not applied (continue); the others go to _process_<model>,
\* whose exception is caught in the loop.
EntryOutcome(e, S, N) ==
  IF EntryValid(e) THEN SyncProcess(e, S, N) ELSE Rejected(S, N)

\* results.append only for the entries the serializer accepted.
AppendResultValidOnly(results, e, ok) ==
  IF EntryValid(e)
  THEN Append(results, [entry |-> e, status |-> IF ok THEN "success" ELSE "error"])
  ELSE results

\* results.append({'entry': entry, 'status': ...}) of SyncView.post.
AppendResult(results, e, ok) ==
  Append(results, [entry |-> e, status |-> IF ok THEN "success" ELSE "error"])

\* The loop of SyncView.post over the entries from position k, with the
\* results so far: an invalid entry and a failing entry get an error result,
\* the loop goes on.
RECURSIVE SyncLoop(_, _, _, _, _)
SyncLoop(entries, k, S, N, results) ==
  IF k > Len(entries)
  THEN [srv |-> S, nextId |-> N, results |-> results]
  ELSE LET e == entries[k]
           out == EntryOutcome(e, S, N)
       IN SyncLoop(entries, k + 1, out.srv, out.nextId, AppendResult(results, e, out.ok))

\* Variant in which the failure of an entry leaves the atomic block as an
\* exception: the changes of the whole request are rolled back.
SyncPostRollback(entries, S, N) ==
  LET out == SyncLoop(entries, 1, S, N, <<>>)
      failed == \E k \in 1..Len(out.results) : out.results[k].status = "error"
  IN [srv |-> IF failed THEN S ELSE out.srv,
      nextId |-> IF failed THEN N ELSE out.nextId,
      resp |-> [endpoint |-> "sync", code |-> 200, request |-> entries, results |-> out.results]]

\* SyncView.post: the loop runs inside db_transaction.atomic(); every
\* exception of an entry is caught inside the block, so the block is left
\* normally and commits.  HTTP 200 with the results.
SyncPost(entries, S, N) ==
  LET out == SyncLoop(entries, 1, S, N, <<>>)
  IN [srv |-> out.srv, nextId |-> out.nextId,
      resp |-> [endpoint |-> "sync", code |-> 200, request |-> entries, results |-> out.results]]

\* One request to a CRUD endpoint: POST, PUT, PATCH or DELETE.
CrudApply(e, S, N) ==
  CASE e.action = "create" -> ServerCreate(e.model_name, e.data, S, N)
    [] e.action = "update" -> ServerUpdate(e.model_name, e.data.id, e.data, S, N)
    [] e.action = "patch" -> ServerPatch(e.model_name, e.data.id, e.data, S, N)
    [] e.action = "delete" -> ServerDelete(e.model_name, e.data.id, S, N)

\* The status of a ModelViewSet response: 201 created, 200 updated, 204
\* deleted, 404 for an id that is not there, 400 for a refused payload.
CrudCode(e, S, ok) ==
  CASE ok /\ e.action = "create" -> 201
    [] ok /\ e.action = "delete" -> 204
    [] ok -> 200
    [] ~ok /\ e.action # "create" /\ e.data.id \notin Ids(S[e.model_name]) -> 404
    [] OTHER -> 400

CrudRequest(e, S, N) ==
  LET out == CrudApply(e, S, N)
  IN [srv |-> out.srv, nextId |-> out.nextId,
      resp |-> [endpoint |-> "crud", code |-> CrudCode(e, S, out.ok),
                request |-> <<e>>,
                results |-> <<[entry |-> e, status |-> IF out.ok THEN "success" ELSE "error"]>>]]

NoResp == [endpoint |-> "none", code |-> 0, request |-> <<>>, results |-> <<>>]

\* ------------------------------------------------------ syncOfflineData run
NoOutcome == [success |-> FALSE, message |-> "none"]
IdleRun == [pc |-> "idle", ops |-> <<>>, i |-> 0, serverIds |-> {},
            results |-> <<>>, outcome |-> NoOutcome]

\* An entry of results: status, the record id, and the error (the response body
\* of a rejected request, or the message of the exception); sid is the id in
\* the response of an accepted request.
Result(st, id, sid, error) == [status |-> st, id |-> id, sid |-> sid, error |-> error]

\* The value syncOfflineData returns after its loop.
Outcome(results) ==
  [success |-> \A k \in 1..Len(results) : results[k].status = "success",
   message |-> IF \E k \in 1..Len(results) : results[k].status = "error"
               THEN "Sync completed with errors"
               ELSE "Sync completed successfully"]

\* The guard of the update / delete branches: skip when data.id is one of the
\* ids the server assigned to a create earlier in this run.
Skips(op, serverIds) ==
  /\ op.operation \in {"update", "delete"}
  /\ op.data.id \in serverIds

\* Run the loop from record run.i up to its next await: skipped records push a
\* result and continue; the first other record is sent; past the last record
\* the function returns.
RECURSIVE Advance(_)
Advance(run) ==
  IF run.i > Len(run.ops)
  THEN [run EXCEPT !.pc = "returned", !.outcome = Outcome(run.results)]
  ELSE IF Skips(run.ops[run.i], run.serverIds)
       THEN Advance([run EXCEPT !.results = Append(@, Result("skipped", run.ops[run.i].id, NoId, "Duplicate ID detected")),
                                !.i = @ + 1])
       ELSE [run EXCEPT !.pc = "sent"]

\* Variant without the early return of lines 34-36.
BeginNoEmptyReturn(q) ==
  Advance([IdleRun EXCEPT !.ops = SortByTimestamp(ToArray(q)), !.i = 1])

\* syncOfflineData up to its first await on the network.
Begin(q) ==
  LET operations == ToArray(q)
  IN IF Len(operations) = 0
     THEN [IdleRun EXCEPT !.pc = "returned",
                          !.outcome = [success |-> TRUE, message |-> "No data to sync"]]
     ELSE Advance([IdleRun EXCEPT !.ops = SortByTimestamp(operations), !.i = 1])

\* Variant that goes on with the next record before the error is recorded.
FailedUnrecorded(run, error) ==
  Advance([run EXCEPT !.i = @ + 1])

\* The catch block of the loop body: record the error, go on with the next record.
Failed(run, error) ==
  Advance([run EXCEPT !.results = Append(@, Result("error", run.ops[run.i].id, NoId, error)),
                      !.i = @ + 1])

\* Variant whose create branch only removes the temporary entry.
MirrorAfterNoAdd(op, row, rows) ==
  CASE op.operation = "create" -> TableDelete(rows, op.id)
    [] op.operation = "update" -> TablePut(rows, row)
    [] op.operation = "delete" -> TableDelete(rows, op.data.id)

\* The mirror table of the record's model after a successful response.
MirrorAfter(op, row, rows) ==
  CASE op.operation = "create" -> TableAdd(TableDelete(rows, op.id), row)
    [] op.operation = "update" -> TablePut(rows, row)
    [] op.operation = "delete" -> TableDelete(rows, op.data.id)

\* db[model].add(response.data) throws when the key is already in the table.
MirrorThrows(op, row, rows) ==
  op.operation = "create" /\ ~CanAdd(TableDelete(rows, op.id), row.id)

\* Variant that stays on the record after its success.
SucceededResend(run, row) ==
  [run EXCEPT !.results = Append(@, Result("success", run.ops[run.i].id, row.id, "none"))]

\* The try block after a successful response: push success, go on.
Succeeded(run, row) ==
  LET op == run.ops[run.i]
  IN Advance([run EXCEPT !.results = Append(@, Result("success", op.id, row.id, "none")),
                         !.serverIds = IF op.operation = "create" THEN @ \cup {row.id} ELSE @,
                         !.i = @ + 1])

\* ------------------------------------------------------------------- Init
\* The state after an earlier online session: one fund in the Canonical Store,
\* fetched into the mirror; nothing queued.
InitRows == [m \in Models |->
               CASE m = "Beneficiary" -> {}
                 [] m = "Fund" -> {[id |-> 1, val |-> 2, fund |-> NoId]}
                 [] m = "Transaction" -> {}]

\* A list component as its route renders it: useState(navigator.onLine), and
\* the effect is scheduled.
\* ears: the online / offline listeners are registered by the effect, not by
\* the render: "none" until the first effect of the mount has run, "on"
\* afterwards, "missed" when a connectivity event came while no listener
\* was registered and left isOnline different from the network.
Rendered(isUp) == [isOnline |-> isUp, effect |-> TRUE, ears |-> "none"]

\* No list component is mounted: ProtectedRoute shows the login page.
NoList == [isOnline |-> FALSE, effect |-> FALSE, ears |-> "none"]

\* window.addEventListener('online' / 'offline') of component c has been
\* called: the first effect of its mount has run.
Listening(c) == c.ears = "on" \/ (c.ears = "missed" /\ ~c.effect)

\* The browser fires the online (up) or offline event: a registered listener
\* takes it (its setIsOnline is HandleConnectivity); without a listener the
\* event is gone.
Event(c, up) ==
  IF ~Shown THEN c
  ELSE IF Listening(c) THEN [c EXCEPT !.ears = "on"]
  ELSE IF c.isOnline = up THEN [c EXCEPT !.ears = "none"]
  ELSE [c EXCEPT !.ears = "missed"]

\* The effect has run: the listeners are registered.
Effected(c) == [c EXCEPT !.effect = FALSE, !.ears = IF @ = "none" THEN "on" ELSE @]

Init ==
  /\ now = ClockStart - 1
  /\ online = TRUE
  /\ queue = {}
  /\ mirror = InitRows
  /\ srv = InitRows
  /\ nextId = [m \in Models |-> IF InitRows[m] = {} THEN 1 ELSE 2]
  /\ runs = [s \in Slots |-> IdleRun]
  /\ comp = Rendered(TRUE)
  /\ token = TRUE
  /\ app = [isAuthenticated |-> "yes", verify |-> FALSE]
  /\ hist = [applied |-> <<>>, resolved |-> {}, removed |-> {},
             nenq |-> 0, nstarts |-> 0, crash |-> "none",
             ndirect |-> 0, last |-> "none",
             nreq |-> 0, resp |-> NoResp]

\* ------------------------------------------------------------ environment
NetDown ==
  /\ online
  /\ online' = FALSE
  /\ comp' = Event(comp, FALSE)
  /\ UNCHANGED <<now, queue, mirror, srv, nextId, runs, hist, token, app>>

\* The list component's listeners exist (its effect has run) and their
\* closure has isOnline = true: the component missed the offline event.
StaleOnline == Shown /\ ~comp.effect /\ comp.isOnline

\* An execution of syncOfflineData counts against MaxStarts when it finds
\* records; with an empty queue it returns at once.
Started(q) == IF q = {} THEN 0 ELSE 1

\* A slot and a start are left for one more execution of syncOfflineData.
CanStart(s) ==
  /\ runs[s].pc = "idle"
  /\ \A t \in Slots : t < s => runs[t].pc # "idle"
  /\ hist.nstarts < MaxStarts

\* The network comes back.  The online event goes to handleOnline; with
\* isOnline = false in its closure its fetch only reads the mirror and the
\* state change is left to HandleConnectivity.
NetUp(S) ==
  /\ ~online
  /\ ~(StaleOnline /\ \E s \in S : CanStart(s))
  /\ online' = TRUE
  /\ comp' = Event(comp, TRUE)
  /\ UNCHANGED <<now, queue, mirror, srv, nextId, runs, hist, token, app>>

\* The network comes back and handleOnline runs with isOnline = true in its
\* closure: setIsOnline(true) changes nothing, and its fetchBeneficiaries /
\* fetchFunds / fetchData calls syncOfflineData.
NetUpStale(s) ==
  /\ ~online
  /\ StaleOnline
  /\ CanStart(s)
  /\ online' = TRUE
  /\ runs' = [runs EXCEPT ![s] = Begin(queue)]
  /\ hist' = [hist EXCEPT !.nstarts = @ + Started(queue)]
  /\ comp' = Event(comp, TRUE)
  /\ UNCHANGED <<now, queue, mirror, srv, nextId, token, app>>

\* App's checkAuth at start-up: without a token, or when GET /api/auth/verify/
\* fails, the token is removed and isAuthenticated is false; the request
\* fails whenever the device is disconnected.
CheckAuth(tok, isUp) == tok /\ isUp

\* Page reload or process exit: every execution in progress is gone, the
\* IndexedDB tables and the Canonical Store stay; App runs checkAuth, and
\* ProtectedRoute renders the list route again or redirects to the login
\* page (a reload is bounded with the run its effect will start).
Crash ==
  /\ hist.nstarts < MaxStarts
  /\ hist.crash = "none"
  /\ runs' = [s \in Slots |-> IdleRun]
  /\ token' = CheckAuth(token, online)
  /\ app' = [isAuthenticated |-> IF token' THEN "yes" ELSE "no", verify |-> FALSE]
  /\ comp' = IF token' THEN Rendered(online) ELSE NoList
  /\ hist' = [hist EXCEPT !.crash = IF \E s \in Slots : runs[s].pc = "sent"
                                    THEN "midrun" ELSE "idle"]
  /\ UNCHANGED <<now, online, queue, mirror, srv, nextId>>

\* Login.handleSubmit: POST /api/token/ succeeds only with the network up;
\* the token is stored, and the user opens a list route from the dashboard.
Login ==
  /\ ~Shown
  /\ online
  /\ token' = TRUE
  /\ app' = [app EXCEPT !.isAuthenticated = "yes"]
  /\ comp' = Rendered(online)
  /\ UNCHANGED <<now, online, queue, mirror, srv, nextId, runs, hist>>

\* The page is loaded and App mounts: isAuthenticated is null and checkAuth
\* sends GET /api/auth/verify/ with the stored token; without a token it sets
\* isAuthenticated = false at once.  ProtectedRoute renders nothing yet.
Reload ==
  /\ runs' = [s \in Slots |-> IdleRun]
  /\ comp' = NoList
  /\ app' = [isAuthenticated |-> IF token THEN "null" ELSE "no", verify |-> token]
  /\ UNCHANGED <<now, online, queue, mirror, srv, nextId, token, hist>>

\* The verification request is answered 200: setIsAuthenticated(true); a
\* ProtectedRoute that was waiting renders the list.
VerifyOk ==
  /\ app.verify
  /\ online
  /\ app' = [isAuthenticated |-> "yes", verify |-> FALSE]
  /\ comp' = IF app.isAuthenticated = "null" THEN Rendered(online) ELSE comp
  /\ UNCHANGED <<now, online, queue, mirror, srv, nextId, runs, token, hist>>

\* The verification request fails (the token it carried has expired, or a
\* network error): the catch block removes whatever token is stored and sets
\* isAuthenticated = false.
VerifyFails ==
  /\ app.verify
  /\ token' = FALSE
  /\ app' = [isAuthenticated |-> "no", verify |-> FALSE]
  /\ comp' = NoList
  /\ UNCHANGED <<now, online, queue, mirror, srv, nextId, runs, hist>>

\* Navbar.handleLogout.
Logout ==
  /\ token \/ app.isAuthenticated # "no"
  /\ token' = FALSE
  /\ app' = [app EXCEPT !.isAuthenticated = "no"]
  /\ comp' = NoList
  /\ UNCHANGED <<now, online, queue, mirror, srv, nextId, runs, hist>>

\* ------------------------------------------------------- list components
\* Navigation from one list route to another: the old component's cleanup
\* removes its listeners (what it started keeps running), the new one mounts.
Navigate ==
  /\ Shown
  /\ ~comp.effect
  /\ comp' = Rendered(online)
  /\ UNCHANGED <<now, online, queue, mirror, srv, nextId, runs, hist, token, app>>

\* handleOnline / handleOffline: setIsOnline, and the re-render schedules the
\* effect again (its dependency isOnline changed).  The fetch that handleOnline
\* calls itself still sees isOnline = false and only reads the mirror.
HandleConnectivity ==
  /\ Shown
  /\ ~comp.effect
  /\ comp.ears = "on"
  /\ comp.isOnline # online
  /\ comp' = [comp EXCEPT !.isOnline = online, !.effect = TRUE]
  /\ UNCHANGED <<now, online, queue, mirror, srv, nextId, runs, hist, token, app>>

\* The effect of the list component runs fetchBeneficiaries / fetchFunds /
\* fetchData with the isOnline of its render: online, it calls syncOfflineData.
EffectOnline(s) ==
  /\ Shown
  /\ comp.effect /\ comp.isOnline
  /\ runs[s].pc = "idle"
  /\ \A t \in Slots : t < s => runs[t].pc # "idle"
  /\ hist.nstarts < MaxStarts
  /\ runs' = [runs EXCEPT ![s] = Begin(queue)]
  /\ comp' = Effected(comp)
  /\ hist' = [hist EXCEPT !.nstarts = @ + Started(queue)]
  /\ UNCHANGED <<now, online, queue, mirror, srv, nextId, token, app>>

\* Offline, the effect only shows the mirror.
EffectOffline ==
  /\ Shown
  /\ comp.effect /\ ~comp.isOnline
  /\ comp' = Effected(comp)
  /\ UNCHANGED <<now, online, queue, mirror, srv, nextId, runs, hist, token, app>>

\* ----------------------------------------------------- the run's requests
Applied(op, row) ==
  [rid |-> op.id, timestamp |-> op.timestamp, model |-> op.model,
   operation |-> op.operation, target |-> op.data.id, sid |-> row.id]

\* The request of the record the run is waiting on reaches the server and the
\* response reaches the client.  2xx: mirror writes, results.push(success),
\* syncQueue.delete(id).  4xx, or a throwing mirror write: the catch block.
Exchange(s) ==
  LET run == runs[s]
      op == run.ops[run.i]
      out == IF token THEN ServerApply(op, srv, nextId) ELSE Rejected(srv, nextId)
  IN /\ run.pc = "sent"
     /\ online
     /\ srv' = out.srv
     /\ nextId' = out.nextId
     /\ IF ~out.ok
        THEN /\ runs' = [runs EXCEPT ![s] = Failed(run, "response.data")]
             /\ UNCHANGED <<queue, mirror, hist>>
        ELSE IF MirrorThrows(op, out.row, mirror[op.model])
        THEN /\ runs' = [runs EXCEPT ![s] =
                           Failed([run EXCEPT !.serverIds = @ \cup {out.row.id}], "ConstraintError")]
             /\ mirror' = [mirror EXCEPT ![op.model] = TableDelete(@, op.id)]
             /\ hist' = [hist EXCEPT !.applied = Append(@, Applied(op, out.row))]
             /\ UNCHANGED queue
        ELSE /\ runs' = [runs EXCEPT ![s] = Succeeded(run, out.row)]
             /\ mirror' = [mirror EXCEPT ![op.model] = MirrorAfter(op, out.row, @)]
             /\ queue' = TableDelete(queue, op.id)
             /\ hist' = [hist EXCEPT !.applied = Append(@, Applied(op, out.row)),
                                     !.removed = @ \cup {op.id}]
     /\ UNCHANGED <<now, online, comp, token, app>>

\* The request never leaves the device, or is lost, while the network is
\* down: axios rejects with a Network Error.
LostRequest(s) ==
  /\ runs[s].pc = "sent"
  /\ ~online
  /\ runs' = [runs EXCEPT ![s] = Failed(runs[s], "Network Error")]
  /\ UNCHANGED <<now, online, queue, mirror, srv, nextId, comp, hist, token, app>>

\* The server handles the request, and the network goes down before the
\* response is back: the store has changed, axios rejects.
LostResponse(s) ==
  LET run == runs[s]
      op == run.ops[run.i]
      out == ServerApply(op, srv, nextId)
  IN /\ run.pc = "sent"
     /\ online
     /\ online' = FALSE
     /\ srv' = out.srv
     /\ nextId' = out.nextId
     /\ runs' = [runs EXCEPT ![s] = Failed(run, "Network Error")]
     /\ hist' = IF out.ok THEN [hist EXCEPT !.applied = Append(@, Applied(op, out.row))] ELSE hist
     /\ comp' = Event(comp, FALSE)
     /\ UNCHANGED <<now, queue, mirror, token, app>>

\* After syncOfflineData returned, its caller (list component v) fetches the
\* lists of its view and rewrites those mirror tables (clear + bulkPut); a
\* failing GET leaves them as they are.  Which component the caller was shows
\* only here.
Refresh(s, v) ==
  /\ runs[s].pc = "returned"
  /\ mirror' = IF online /\ token
               THEN [m \in Models |-> IF m \in Fetched(v) THEN srv[m] ELSE mirror[m]]
               ELSE mirror
  /\ runs' = [runs EXCEPT ![s] = IdleRun]
  /\ hist' = [hist EXCEPT !.crash = "none"]
  /\ UNCHANGED <<now, online, queue, srv, nextId, comp, token, app>>

\* ------------------------------------------------------- offline handlers
\* Date.now(): the first reading is ClockStart; since the previous reading no
\* millisecond or one millisecond has passed.
DateNow == {t \in {now, now + 1} : t >= ClockStart}

\* The record queueOperation builds: id: Date.now(), timestamp: new Date().
NewRecord(operation, m, d, t) ==
  [id |-> t, operation |-> operation, model |-> m, data |-> d, timestamp |-> t]

\* The values a form field can take: an amount for a fund or a transaction,
\* one name for a beneficiary.
FieldVals(m) == IF m = "Beneficiary" THEN {1} ELSE Vals

\* The payloads the forms can produce from what the component shows.
\* TransactionList checks the fund and amount <= fund.amount before it
\* builds the payload; the other forms take any value.
FormData(m, id) ==
  IF m = "Transaction"
  THEN {[id |-> id, val |-> p[1], fund |-> p[2].id] :
          p \in {q \in FieldVals(m) \X mirror["Fund"] : ~(q[1] > q[2].val)}}
  ELSE {[id |-> id, val |-> v, fund |-> NoId] : v \in FieldVals(m)}

\* What the component believes about connectivity when a form is submitted:
\* BeneficiaryForm reads navigator.onLine, the list components their state.
FormOffline(operation, m) ==
  IF operation = "create" /\ m = "Beneficiary" THEN ~online ELSE ~comp.isOnline

\* The optimistic mirror write that follows queueOperation in the list
\* handlers; a create stores the payload under a second Date.now() (t2), and
\* BeneficiaryForm writes nothing.
FormMirror(rec, t2, rows) ==
  CASE rec.operation = "create" ->
         IF rec.model = "Beneficiary" \/ ~CanAdd(rows, t2) THEN rows
         ELSE TableAdd(rows, [rec.data EXCEPT !.id = t2])
    [] rec.operation = "update" -> TablePut(rows, rec.data)
    [] rec.operation = "delete" -> TableDelete(rows, rec.data.id)

\* An offline form handler: queueOperation stores the record, then the mirror
\* is written.  With the key already in syncQueue, add rejects
\* (ConstraintError) and the handler ends there.
Enqueue(rec, t2, limit) ==
  /\ hist.nenq < limit
  /\ Shown
  /\ FormOffline(rec.operation, rec.model)
  /\ IF CanAdd(queue, rec.id)
     THEN /\ queue' = TableAdd(queue, rec)
          /\ mirror' = [mirror EXCEPT ![rec.model] = FormMirror(rec, t2, @)]
          /\ now' = t2
          /\ hist' = [hist EXCEPT !.nenq = @ + 1, !.resolved = @ \cup {rec.id}]
     ELSE /\ now' = rec.id
          /\ hist' = [hist EXCEPT !.nenq = @ + 1]
          /\ UNCHANGED <<queue, mirror>>
  /\ UNCHANGED <<online, srv, nextId, runs, comp, token, app>>

\* The readings of Date.now() in one handler: t for the record, t2 for the
\* mirror entry of a create.
Readings(operation) ==
  {p \in DateNow \X {now, now + 1, now + 2} :
     /\ p[2] \in {p[1], p[1] + 1}
     /\ operation # "create" => p[2] = p[1]}

\* handleSubmit of BeneficiaryForm, FundList, TransactionList, offline branch.
SubmitCreate(m, limit) ==
  \E p \in Readings("create") : \E d \in FormData(m, NoId) :
    Enqueue(NewRecord("create", m, d, p[1]), p[2], limit)

\* handleEditSubmit of the three lists, offline branch.
SubmitUpdate(m, limit) ==
  \E p \in Readings("update") : \E id \in Ids(mirror[m]) : \E d \in FormData(m, id) :
    Enqueue(NewRecord("update", m, d, p[1]), p[2], limit)

\* confirmDelete of the three lists, offline branch.
SubmitDelete(m, limit) ==
  \E p \in Readings("delete") : \E id \in Ids(mirror[m]) :
    Enqueue(NewRecord("delete", m, [id |-> id, val |-> 0, fund |-> NoId], p[1]), p[2], limit)

\* ------------------------------------------------------------------ Next
\* The steps of the system with at most limit calls of queueOperation and
\* the executions of syncOfflineData in the slots S.
Step(limit, S) ==
  \/ NetDown
  \/ NetUp(S)
  \/ \E s \in S : NetUpStale(s)
  \/ Crash
  \/ Login
  \/ Navigate
  \/ HandleConnectivity
  \/ \E s \in S : EffectOnline(s)
  \/ EffectOffline
  \/ \E s \in S : Exchange(s)
  \/ \E s \in S : LostRequest(s)
  \/ \E s \in S : LostResponse(s)
  \/ \E s \in S : \E v \in Views : Refresh(s, v)
  \/ \E m \in Models : SubmitCreate(m, limit)
  \/ \E m \in Models : SubmitUpdate(m, limit)
  \/ \E m \in Models : SubmitDelete(m, limit)

Next == Step(MaxEnq, Slots)

\* One pending mutation, overlapping executions of syncOfflineData.
Spec == Init /\ [][Next]_vars

NextBatch == Step(BatchEnq, {1})

\* A batch of two pending mutations, one execution of syncOfflineData at a time.
SpecBatch == Init /\ [][NextBatch]_vars

\* The steps of the system while the process is never reloaded or exited:
\* any triggers of syncOfflineData, any outcomes of the network.
NextSteady ==
  \/ NetDown
  \/ NetUp(Slots)
  \/ \E s \in Slots : NetUpStale(s)
  \/ Navigate
  \/ HandleConnectivity
  \/ \E s \in Slots : EffectOnline(s)
  \/ EffectOffline
  \/ \E s \in Slots : Exchange(s)
  \/ \E s \in Slots : LostRequest(s)
  \/ \E s \in Slots : LostResponse(s)
  \/ \E s \in Slots : \E v \in Views : Refresh(s, v)
  \/ \E m \in Models : SubmitCreate(m, MaxEnq)
  \/ \E m \in Models : SubmitUpdate(m, MaxEnq)
  \/ \E m \in Models : SubmitDelete(m, MaxEnq)

SpecSteady == Init /\ [][NextSteady]_vars

\* The steps of one session on one list route, without reload, navigation
\* or lost response, with at most limit calls of queueOperation and one
\* execution of syncOfflineData at a time.
Session(limit) ==
  \/ NetDown
  \/ NetUp({1})
  \/ HandleConnectivity
  \/ EffectOnline(1)
  \/ EffectOffline
  \/ Exchange(1)
  \/ LostRequest(1)
  \/ \E v \in Views : Refresh(1, v)
  \/ \E m \in Models : SubmitCreate(m, limit)
  \/ \E m \in Models : SubmitUpdate(m, limit)
  \/ \E m \in Models : SubmitDelete(m, limit)

\* The application from page load to logout: App's checkAuth and its
\* answer, the login page, the navigation bar, and a session on the list
\* routes.
NextAuth ==
  \/ Reload
  \/ VerifyOk
  \/ VerifyFails
  \/ Login
  \/ Logout
  \/ Navigate
  \/ Session(MaxEnq)

SpecAuth == Init /\ [][NextAuth]_vars

\* What the code's scheduling guarantees: a request in flight is answered or
\* fails, the caller of a returned run goes on, React runs a scheduled effect
\* and delivers the online / offline events to the mounted component.  Form
\* submissions, navigation, reloads and the network are up to the environment.
Fairness ==
  /\ WF_vars(Exchange(1) \/ LostRequest(1))
  /\ WF_vars(\E v \in Views : Refresh(1, v))
  /\ WF_vars(EffectOnline(1))
  /\ WF_vars(EffectOffline)
  /\ WF_vars(HandleConnectivity)

\* SpecBatch with the scheduling of the code.
SpecLive == Init /\ [][NextBatch]_vars /\ Fairness

\* ---------------------------------------------- online branch of the forms
\* The mirror write after the direct request succeeded: the list handlers
\* add / put / delete, BeneficiaryForm writes nothing; a failing add ends in
\* the handler's catch block.
DirectMirror(operation, m, d, row, rows) ==
  CASE operation = "create" ->
         IF m = "Beneficiary" \/ ~CanAdd(rows, row.id) THEN rows
         ELSE TableAdd(rows, row)
    [] operation = "update" -> TablePut(rows, row)
    [] operation = "delete" -> TableDelete(rows, d.id)

\* A form handler whose component considers the device online: the request
\* goes to the CRUD endpoint; nothing is queued, whether the request is
\* applied, refused by the server, or fails for lack of connectivity.
Direct(operation, m, d) ==
  LET out == ServerApply([operation |-> operation, model |-> m, data |-> d], srv, nextId)
  IN /\ hist.ndirect < MaxDirect
     /\ Shown
     /\ ~FormOffline(operation, m)
     /\ IF ~online
        THEN /\ hist' = [hist EXCEPT !.ndirect = @ + 1, !.last = "unreachable"]
             /\ UNCHANGED <<srv, nextId, mirror>>
        ELSE IF ~out.ok
        THEN /\ hist' = [hist EXCEPT !.ndirect = @ + 1, !.last = "refused"]
             /\ UNCHANGED <<srv, nextId, mirror>>
        ELSE /\ srv' = out.srv
             /\ nextId' = out.nextId
             /\ mirror' = [mirror EXCEPT ![m] = DirectMirror(operation, m, d, out.row, @)]
             /\ hist' = [hist EXCEPT !.ndirect = @ + 1, !.last = "applied"]
     /\ UNCHANGED <<now, online, queue, runs, comp, token, app>>

\* handleSubmit, online branch.
DirectCreate(m) == \E d \in FormData(m, NoId) : Direct("create", m, d)

\* handleEditSubmit, online branch.
DirectUpdate(m) ==
  \E id \in Ids(mirror[m]) : \E d \in FormData(m, id) : Direct("update", m, d)

\* confirmDelete, online branch.
DirectDelete(m) ==
  \E id \in Ids(mirror[m]) : Direct("delete", m, [id |-> id, val |-> 0, fund |-> NoId])

NextForms ==
  \/ Session(BatchEnq)
  \/ \E m \in Models : DirectCreate(m)
  \/ \E m \in Models : DirectUpdate(m)
  \/ \E m \in Models : DirectDelete(m)

\* A session with both branches of the form handlers.
SpecForms == Init /\ [][NextForms]_vars

\* ------------------------------------------------------ other API clients
\* The payload values of the requests explored: amounts below and above the
\* amount of the fund of InitRows, ids that exist and that do not.
ApiVals == {1, 3}
ApiIds == {1, 2}

Entry(action, m, d) == [action |-> action, model_name |-> m, data |-> d]

\* Complete payloads (create, PUT).
FullData(m, id) ==
  {[id |-> id, val |-> v, fund |-> f] :
     v \in ApiVals, f \in IF m = "Transaction" THEN ApiIds ELSE {NoId}}

\* Payloads of a partial update: any field may be left out.
PartialData(m, id) ==
  {[id |-> id, val |-> v, fund |-> f] :
     v \in ApiVals \cup {Absent},
     f \in IF m = "Transaction" THEN {Absent, 1} ELSE {Absent}}

\* Requests to the CRUD endpoints.
CrudEntries ==
  UNION {{Entry("create", m, d) : d \in FullData(m, NoId)} : m \in {"Fund", "Transaction"}}
    \cup UNION {{Entry("update", m, d) : d \in FullData(m, 1)} : m \in {"Fund", "Transaction"}}
    \cup UNION {{Entry("patch", m, d) : d \in PartialData(m, 1)} : m \in {"Fund", "Transaction"}}
    \cup {Entry("delete", m, [id |-> i, val |-> Absent, fund |-> Absent]) :
            m \in {"Fund", "Transaction"}, i \in ApiIds}

\* Entries of a request to /api/sync/: valid and failing ones of the three
\* models, an unknown action and an unknown model.
SyncEntries ==
  {Entry("create", "Beneficiary", [id |-> NoId, val |-> 1, fund |-> NoId]),
   Entry("create", "Fund", [id |-> NoId, val |-> 3, fund |-> NoId]),
   Entry("create", "Transaction", [id |-> NoId, val |-> 1, fund |-> 1]),
   Entry("create", "Transaction", [id |-> NoId, val |-> 1, fund |-> 2]),
   Entry("create", "Transaction", [id |-> NoId, val |-> 3, fund |-> 1]),
   Entry("update", "Transaction", [id |-> 1, val |-> 3, fund |-> Absent]),
   Entry("update", "Fund", [id |-> 1, val |-> 1, fund |-> Absent]),
   Entry("update", "Beneficiary", [id |-> 2, val |-> 1, fund |-> Absent]),
   Entry("delete", "Fund", [id |-> 1, val |-> Absent, fund |-> Absent]),
   Entry("delete", "Transaction", [id |-> 2, val |-> Absent, fund |-> Absent]),
   Entry("merge", "Fund", [id |-> 1, val |-> 1, fund |-> Absent]),
   Entry("create", "User", [id |-> NoId, val |-> 1, fund |-> NoId])}

\* The lists of at most MaxBatch entries.
RECURSIVE Batches(_)
Batches(n) ==
  IF n = 0 THEN {<<>>}
  ELSE Batches(n - 1) \cup {Append(b, e) : b \in {x \in Batches(n - 1) : Len(x) = n - 1}, e \in SyncEntries}

\* An authorised client other than the application sends one request.
Served(out) ==
  /\ hist.nreq < MaxReq
  /\ srv' = out.srv
  /\ nextId' = out.nextId
  /\ hist' = [hist EXCEPT !.nreq = @ + 1, !.resp = out.resp]
  /\ UNCHANGED <<now, online, queue, mirror, runs, comp, token, app>>

ApiCrud == \E e \in CrudEntries : Served(CrudRequest(e, srv, nextId))

ApiSync == \E b \in Batches(MaxBatch) : Served(SyncPost(b, srv, nextId))

NextApi ==
  \/ ApiCrud
  \/ ApiSync

\* The Canonical Store under the requests of its API.
SpecApi == Init /\ [][NextApi]_vars

\* ------------------------------------------------------------ device clock
\* Date.now() is the wall clock of the device: time passes, and the user or
\* a time synchronisation sets the clock, back as well as forward.
ClockAdjust ==
  /\ \E t \in (ClockStart - 1)..(ClockStart + MaxSkew) : t # now /\ now' = t
  /\ UNCHANGED <<online, queue, mirror, srv, nextId, runs, comp, token, app, hist>>

NextClock ==
  \/ Session(BatchEnq)
  \/ ClockAdjust

\* A session without reload or navigation on a device whose clock is adjusted.
SpecClock == Init /\ [][NextClock]_vars

\* ---------------------------------------------------------- storage faults
\* db.syncQueue.toArray() rejects (the database is closed, blocked or
\* unreadable): line 33 is outside the try blocks, so the promise of
\* syncOfflineData rejects.
BeginReadFails == [IdleRun EXCEPT !.pc = "rejected"]

\* The effect calls syncOfflineData and the read of the queue fails.
EffectReadFails(s) ==
  /\ Shown
  /\ comp.effect /\ comp.isOnline
  /\ runs[s].pc = "idle"
  /\ \A t \in Slots : t < s => runs[t].pc # "idle"
  /\ hist.nstarts < MaxStarts
  /\ runs' = [runs EXCEPT ![s] = BeginReadFails]
  /\ comp' = Effected(comp)
  /\ hist' = [hist EXCEPT !.nstarts = @ + Started(queue)]
  /\ UNCHANGED <<now, online, queue, mirror, srv, nextId, token, app>>

\* The catch block of the caller (fetchBeneficiaries / fetchFunds /
\* fetchData): 'Failed to fetch data', no GET, no mirror write.
CallerCatches(s) ==
  /\ runs[s].pc = "rejected"
  /\ runs' = [runs EXCEPT ![s] = IdleRun]
  /\ hist' = [hist EXCEPT !.crash = "none"]
  /\ UNCHANGED <<now, online, queue, mirror, srv, nextId, comp, token, app>>

NextFault ==
  \/ Step(MaxEnq, Slots)
  \/ \E s \in Slots : EffectReadFails(s)
  \/ \E s \in Slots : CallerCatches(s)

\* Spec with a failing read of the queue.
SpecFault == Init /\ [][NextFault]_vars

\* ================================================================ claims
\* Run s returns in this step (from its loop, not from the empty-queue exit).
Returns(s) == runs[s].pc = "sent" /\ runs'[s].pc = "returned"

\* An identifier made on the device (Date.now()), not assigned by the server.
IsLocal(id) == id >= ClockStart

\* Run s is called in this step.
Starts(s) == runs[s].pc = "idle" /\ runs'[s].pc # "idle"

\* The server ids of the entities the Canonical Store created from record rid.
CreatedFrom(applied, rid) ==
  {k \in 1..Len(applied) : applied[k].rid = rid /\ applied[k].operation = "create"}

IsCreate(op, m) == op.operation = "create" /\ op.model = m

C5_MutualExclusion ==
  Cardinality({s \in Slots : runs[s].pc = "sent"}) <= 1

\* C7: crash safety of enqueue.  Every record whose queueOperation has
\* resolved is in syncQueue, in every later state - after a page reload or
\* process exit too - until a sync run removes it on its success path; so
\* before any sync run it is in what the first read of the queue returns.
C7_EnqueueDurable ==
  /\ hist.resolved \subseteq (Ids(queue) \cup hist.removed)
  /\ hist.nstarts = 0 => hist.resolved = Ids(queue)
  /\ \A id \in hist.resolved \ hist.removed :
       \E k \in 1..Len(ToArray(queue)) : ToArray(queue)[k].id = id

\* Witness of C7: the process has exited after queueOperation resolved and
\* before any sync run, and the record is in the queue.
C7_Witness ==
  /\ hist.crash = "idle"
  /\ hist.nstarts = 0
  /\ hist.resolved # {}
  /\ hist.resolved = Ids(queue)

\* C9: a run that starts with an empty queue returns at once with
\* {success: true, 'No data to sync'}, sends no request, and leaves the queue,
\* the mirrors and the Canonical Store as they are - also when it is the
\* second run in succession.
C9_EmptyQueueNoOp ==
  [][\A s \in Slots :
       (Starts(s) /\ queue = {})
       => /\ runs'[s].pc = "returned"
          /\ runs'[s].outcome = [success |-> TRUE, message |-> "No data to sync"]
          /\ runs'[s].results = <<>>
          /\ queue' = queue /\ mirror' = mirror
          /\ srv' = srv /\ nextId' = nextId
          /\ hist'.applied = hist.applied
  ]_vars

\* Witness of C9: the second run of a behaviour has found the queue empty.
C9_Witness ==
  \E s \in Slots :
    /\ runs[s].pc = "returned"
    /\ runs[s].outcome.message = "No data to sync"
    /\ hist.nstarts = 2
    /\ hist.applied # <<>>

\* C10: offline guard.  A run called while the device is not connected, with
\* a non-empty queue, returns at once with the offline outcome and has sent
\* no request.
C10_OfflineGuard ==
  [][\A s \in Slots :
       (Starts(s) /\ ~online /\ queue # {})
       => /\ runs'[s].pc = "returned"
          /\ runs'[s].outcome = [success |-> FALSE, message |-> "Offline: Cannot sync"]
          /\ runs'[s].results = <<>>
  ]_vars

\* C2: reconciliation.  A run over <<Create Fund, Create Transaction>>, the
\* transaction's payload naming the fund by its local identifier, in which
\* the fund was created and the transaction's request was answered: the
\* transaction is stored, it references the id the server gave the fund, and
\* both records have left the queue.
C2_Reconciliation ==
  \A s \in Slots :
    (/\ runs[s].pc = "returned"
     /\ Len(runs[s].ops) = 2
     /\ IsCreate(runs[s].ops[1], "Fund")
     /\ IsCreate(runs[s].ops[2], "Transaction")
     /\ IsLocal(runs[s].ops[2].data.fund)
     /\ runs[s].results[1].status = "success"
     /\ runs[s].results[2].error # "Network Error")
    => /\ runs[s].results[2].status = "success"
       /\ \E r \in srv["Transaction"] :
            r.id = runs[s].results[2].sid /\ r.fund = runs[s].results[1].sid
       /\ queue = {}

C4_Ordering ==
  \A i, j \in 1..Len(hist.applied) :
    (/\ i < j
     /\ hist.applied[i].target # NoId
     /\ hist.applied[i].model = hist.applied[j].model
     /\ hist.applied[i].target = hist.applied[j].target)
    => hist.applied[i].timestamp <= hist.applied[j].timestamp

\* C6: record lifecycle.  A step removes a record from syncQueue only when
\* it handles the successful response for that record; and when a run
\* returns, each record it skipped or failed on is in the queue, unchanged.
C6_Lifecycle ==
  [][/\ \A r \in queue \ queue' :
          \E s \in Slots :
            /\ runs[s].pc = "sent" /\ runs[s].ops[runs[s].i] = r
            /\ Len(runs'[s].results) > Len(runs[s].results)
            /\ runs'[s].results[Len(runs[s].results) + 1] =
                 Result("success", r.id, runs'[s].results[Len(runs[s].results) + 1].sid, "none")
     /\ \A s \in Slots :
          Returns(s)
          => \A k \in 1..Len(runs'[s].results) :
               runs'[s].results[k].status \in {"error", "skipped"}
               => runs'[s].ops[k] \in queue'
  ]_vars

Reloads == hist.crash = "none" /\ hist'.crash # "none"

\* C17: offline start.  When the application starts or reloads while
\* disconnected, with a token stored from an earlier login, the start-up
\* check leaves the token in local storage and the list view is rendered.
C17_OfflineStart ==
  [][(Reloads /\ token /\ ~online) => (token' /\ comp' = Rendered(FALSE))]_vars

\* The step is a call of queueOperation from a form handler.
Enqueues == hist'.nenq = hist.nenq + 1

\* C14: queueOperation succeeds for every call, whatever the network state
\* and the timing of other calls: each call adds one record to syncQueue,
\* also a call in the same clock tick as the call before.
C14_EnqueueNeverFails ==
  [][Enqueues => /\ Cardinality(queue') = Cardinality(queue) + 1
                 /\ queue \subseteq queue'
                 /\ hist'.resolved # hist.resolved]_vars

\* C11: syncOfflineData never raises.  The promise of no execution rejects:
\* every failure, a failing read of the queue included, ends in a returned
\* outcome.
C11_NeverRaises ==
  \A s \in Slots : runs[s].pc # "rejected"

\* The server would accept the request of queued record r now.
Acceptable(r) == ServerApply(r, srv, nextId).ok

\* The keys queueOperation can give within the bounds.
RecIds == ClockStart..(ClockStart + 2 * BatchEnq)

\* Run s has read the queue, record id among it, and has dispatched nothing yet.
Triggered(s, id) ==
  /\ runs[s].pc = "sent" /\ runs[s].i = 1
  /\ \E k \in 1..Len(runs[s].ops) : runs[s].ops[k].id = id

\* A run the component has scheduled is beyond the runs explored.
Truncated == token /\ comp.effect /\ comp.isOnline /\ hist.nstarts >= MaxStarts

C13_LocalIdMonotonic ==
  [][\A r \in queue' \ queue : \A id \in hist.resolved : r.id > id]_vars

\* The step is a form submission that takes the online branch.
Directs == hist'.ndirect = hist.ndirect + 1

\* C15: write routing.  A form submitted while the component considers the
\* device offline adds exactly one record to the queue and sends no request
\* (the Canonical Store is as before); submitted while it considers the
\* device online, the request is sent and the queue is as before.
C15_WriteRouting ==
  [][/\ Enqueues => /\ Cardinality(queue') = Cardinality(queue) + 1
                    /\ queue \subseteq queue'
                    /\ srv' = srv /\ nextId' = nextId
     /\ Directs => /\ queue' = queue
                   /\ hist'.last \in {"applied", "refused", "unreachable"}
  ]_vars

\* C16: no write intent is dropped.  After a form handler has finished, the
\* write has been applied to the Canonical Store, or refused by the server's
\* validation, or a record for it is in the queue.
C16_NoWriteDropped ==
  [][/\ Enqueues => \E r \in queue' : r \notin queue
     /\ (Directs /\ hist'.last = "unreachable") => \E r \in queue' : r \notin queue
  ]_vars

\* A request of another API client is answered in this step.
Answered == hist'.nreq # hist.nreq

\* The sum of the amounts of a set of rows.
RECURSIVE SumVal(_)
SumVal(rows) ==
  IF rows = {} THEN 0
  ELSE LET r == CHOOSE x \in rows : TRUE IN r.val + SumVal(rows \ {r})

\* The remaining amount of the fund of Transaction t: the fund's amount minus
\* the amounts of the other Transactions against it.
Remaining(S, t) ==
  Row(S["Fund"], t.fund).val
    - SumVal({x \in S["Transaction"] : x.fund = t.fund /\ x.id # t.id})

\* C18: in the Canonical Store every Transaction's amount is at most the
\* remaining amount of the Fund it references (the Fund's amount minus the
\* amounts of the other Transactions against it), so no Transaction's amount
\* exceeds its Fund's amount, after any accepted creates, updates and deletes
\* through the CRUD endpoints or the sync endpoint.
C18_RemainingAmount ==
  \A t \in srv["Transaction"] :
    /\ t.fund \in Ids(srv["Fund"])
    /\ t.val <= Row(srv["Fund"], t.fund).val
    /\ t.val <= Remaining(srv, t)

\* Entry e asks for a Transaction create or update whose resulting amount
\* exceeds the amount of the Fund the Transaction then references in store S.
Exceeds(e, S) ==
  /\ e.model_name = "Transaction"
  /\ \/ /\ e.action = "create"
        /\ e.data.fund \in Ids(S["Fund"])
        /\ e.data.val > Row(S["Fund"], e.data.fund).val
     \/ /\ e.action \in {"update", "patch"}
        /\ e.data.id \in Ids(S["Transaction"])
        /\ LET old == Row(S["Transaction"], e.data.id)
               f == Field(e.data, "fund", old)
               v == Field(e.data, "val", old)
           IN f \in Ids(S["Fund"]) /\ v > Row(S["Fund"], f).val

\* C19: the server answers with an error, and leaves the Canonical Store as
\* it was, every request for a Transaction create or update (full or
\* partial, with or without the fund field) whose resulting amount exceeds
\* the amount of the Fund the Transaction references.
C19_ServerRejectsExcess ==
  [][(Answered /\ Len(hist'.resp.request) = 1 /\ Exceeds(hist'.resp.request[1], srv))
       => (hist'.resp.results[1].status = "error" /\ srv' = srv)]_vars

\* C20: SyncView.post answers a list of n entries with HTTP 200 and exactly
\* n results; the i-th result carries the i-th entry and the status success
\* or error, success exactly when the entry is valid and is accepted by the
\* store left by the entries before it: the entries are processed in the
\* order given, also when some or all of them fail.
C20_ResultShape ==
  [][(Answered /\ hist'.resp.endpoint = "sync")
       => LET r == hist'.resp
              n == Len(r.request)
          IN /\ r.code = 200
             /\ Len(r.results) = n
             /\ \A i \in 1..n :
                  LET before == SyncLoop(SubSeq(r.request, 1, i - 1), 1, srv, nextId, <<>>)
                      e == r.request[i]
                  IN /\ r.results[i].entry = e
                     /\ r.results[i].status \in {"success", "error"}
                     /\ r.results[i].status = "success"
                          <=> (EntryValid(e) /\ SyncProcess(e, before.srv, before.nextId).ok)]_vars

\* A batch answered with an error for an entry the serializer refuses and a
\* success for the entry after it.
C20_Witness ==
  /\ hist.resp.endpoint = "sync"
  /\ Len(hist.resp.request) = MaxBatch
  /\ ~EntryValid(hist.resp.request[1])
  /\ hist.resp.results[1].status = "error"
  /\ hist.resp.results[MaxBatch].status = "success"

\* The store after applying, in order, the entries of a request whose result
\* is success.
RECURSIVE CommitSuccesses(_, _, _, _)
CommitSuccesses(r, k, S, N) ==
  IF k > Len(r.request) THEN S
  ELSE IF r.results[k].status = "success"
       THEN LET out == SyncProcess(r.request[k], S, N)
            IN CommitSuccesses(r, k + 1, out.srv, out.nextId)
       ELSE CommitSuccesses(r, k + 1, S, N)

C22_ClosedSet ==
  [][(Answered /\ hist'.resp.endpoint = "sync")
       => LET r == hist'.resp
          IN /\ \A i \in 1..Len(r.request) :
                  ~EntryValid(r.request[i])
                  => /\ i <= Len(r.results)
                     /\ r.results[i].status = "error"
                     /\ r.results[i].entry = r.request[i]
             /\ srv' = SyncLoop(SelectSeq(r.request, EntryValid), 1, srv, nextId, <<>>).srv]_vars

\* A batch with an unknown action first and an applied entry after it.
C22_Witness ==
  /\ hist.resp.endpoint = "sync"
  /\ Len(hist.resp.request) = MaxBatch
  /\ hist.resp.request[1].action \notin {"create", "update", "delete"}
  /\ hist.resp.results[1].status = "error"
  /\ hist.resp.results[MaxBatch].status = "success"
  /\ hist.resp.request[MaxBatch].action = "create"

\* The network is up and the mounted list view still has isOnline = false:
\* connectivity went from offline to online under it.
CameOnline == token /\ online /\ ~comp.isOnline

\* A list view has just been mounted while online.
MountedOnline == token /\ comp.isOnline /\ comp.effect /\ comp.ears = "none"

\* C23: sync trigger.  When connectivity goes from offline to online under
\* a mounted list view, and when a list view is mounted while online, an
\* execution of syncOfflineData over the queued records is eventually
\* started, unless the network goes down again or the view is gone.
C23_SyncTrigger ==
  \A k \in 0..(MaxStarts - 1) :
    /\ []((CameOnline /\ queue # {} /\ hist.nstarts = k)
            => <>(hist.nstarts > k \/ ~online \/ ~token))
    /\ []((MountedOnline /\ queue # {} /\ hist.nstarts = k)
            => <>(hist.nstarts > k \/ ~token))

\* Record op changes or removes an entity it addresses by an identifier made
\* on the device.
LocalTarget(op) == op.operation \in {"update", "delete"} /\ IsLocal(op.data.id)

\* A Create of model m has succeeded among the first n results of the run.
CreatedInRun(run, m, n) ==
  \E j \in 1..n : IsCreate(run.ops[j], m) /\ run.results[j].status = "success"

\* C24: skip of unsatisfiable records.  An Update or Delete record that
\* addresses a local identifier, in a run in which no Create of its model
\* has succeeded, is never sent to the server; it gets the result skipped
\* and is in the queue when the run returns.
C24_SkipUnsatisfiable ==
  [][\A s \in Slots :
       /\ (runs'[s].pc = "sent" /\ LocalTarget(runs'[s].ops[runs'[s].i]))
            => CreatedInRun(runs'[s], runs'[s].ops[runs'[s].i].model, runs'[s].i - 1)
       /\ Returns(s)
            => \A k \in 1..Len(runs'[s].results) :
                 (LocalTarget(runs'[s].ops[k]) /\ ~CreatedInRun(runs'[s], runs'[s].ops[k].model, k - 1))
                 => /\ runs'[s].results[k].status = "skipped"
                    /\ runs'[s].ops[k] \in queue'
  ]_vars

\* C25: same-run reconciliation of the target.  A Create of an entity and
\* the Update or Delete of that entity under its local identifier are the
\* two records of a run, the Create succeeds and the request of the second
\* record is not lost: the second record succeeds too, the Canonical Store
\* holds the entity with the updated fields (or no longer holds it), and the
\* queue is empty.
C25_SameRunTarget ==
  \A s \in Slots :
    (/\ runs[s].pc = "returned"
     /\ Len(runs[s].ops) = 2
     /\ runs[s].ops[1].operation = "create"
     /\ runs[s].ops[2].model = runs[s].ops[1].model
     /\ LocalTarget(runs[s].ops[2])
     /\ runs[s].results[1].status = "success"
     /\ runs[s].results[2].error # "Network Error")
    => LET m == runs[s].ops[1].model
           sid == runs[s].results[1].sid
       IN /\ runs[s].results[2].status = "success"
          /\ queue = {}
          /\ IF runs[s].ops[2].operation = "delete"
             THEN sid \notin Ids(srv[m])
             ELSE \E r \in srv[m] : r.id = sid /\ r.val = runs[s].ops[2].data.val

\* C26: mirror after a successful Create.  In the step in which a run takes
\* the successful response of the Create of the only entity made offline,
\* the mirror table gets the entity under the id the server assigned, keeps
\* no entry under an identifier made on the device, and the record leaves
\* the queue.
C26_MirrorAfterCreate ==
  [][\A s \in Slots :
       (/\ runs[s].pc = "sent"
        /\ runs[s].ops[runs[s].i].operation = "create"
        /\ Len(runs'[s].results) > Len(runs[s].results)
        /\ runs'[s].results[Len(runs[s].results) + 1].status = "success")
       => LET op == runs[s].ops[runs[s].i]
              sid == runs'[s].results[Len(runs[s].results) + 1].sid
          IN /\ sid \in Ids(mirror'[op.model])
             /\ \A x \in mirror'[op.model] : ~IsLocal(x.id)
             /\ op \notin queue'
  ]_vars

\* C27: sequential dispatch within a run.  A run has one position: when it
\* issues the request of record i, each of the i - 1 records before it has
\* its result, and those with the result success have left the queue; so
\* no request of the run is issued while another of its requests is
\* unanswered.
C27_SequentialDispatch ==
  [][\A s \in Slots :
       (runs'[s].pc = "sent" /\ runs'[s] # runs[s])
       => /\ Len(runs'[s].results) = runs'[s].i - 1
          /\ \A k \in 1..(runs'[s].i - 1) :
               /\ runs'[s].results[k].id = runs'[s].ops[k].id
               /\ runs'[s].results[k].status \in {"success", "error", "skipped"}
               /\ runs'[s].results[k].status = "success" => runs'[s].ops[k] \notin queue'
  ]_vars

\* The request of the second record of a run is out, after the error of the
\* first was recorded.
C27_Witness ==
  \E s \in Slots :
    /\ runs[s].pc = "sent"
    /\ runs[s].i = 2
    /\ runs[s].results[1].status = "error"
    /\ runs[s].ops[1] \in queue

C29_LoginNotRevoked ==
  [][(token /\ Shown /\ ~Logout /\ ~Reload) => (token' /\ app'.isAuthenticated = "yes")]_vars

\* The records of a sequence of queue records.
Records(ops) == {ops[k] : k \in 1..Len(ops)}

\* C30: bounded run.  A run works on the records the queue held when it
\* read it and on no other; its list of records never changes; every answer
\* or failure of a request moves it to a later record or to its return, so
\* each record gets at most one request; a record leaves the queue only as
\* the record a run is waiting on; and the run returns an outcome with one
\* result per record it read.
C30_BoundedRun ==
  [][\A s \in Slots :
       /\ Starts(s) => Records(runs'[s].ops) = queue /\ Len(runs'[s].ops) = Cardinality(queue)
       /\ (runs[s].pc = "sent" /\ runs'[s] # runs[s] /\ runs'[s].pc # "idle")
            => /\ runs'[s].ops = runs[s].ops
               /\ runs'[s].pc \in {"sent", "returned"}
               /\ runs'[s].i > runs[s].i
               /\ queue \ queue' \subseteq {runs[s].ops[runs[s].i]}
       /\ Returns(s)
            => /\ Len(runs'[s].results) = Len(runs'[s].ops)
               /\ \A k \in 1..Len(runs'[s].ops) : runs'[s].results[k].id = runs'[s].ops[k].id
               /\ runs'[s].outcome # NoOutcome
  ]_vars

\* A run over one record has returned, and the record that was enqueued
\* while it was in progress is in the queue.
C30_Witness ==
  \E s \in Slots :
    /\ runs[s].pc = "returned"
    /\ Len(runs[s].ops) = 1
    /\ runs[s].results[1].status = "success"
    /\ \E r \in queue : r \notin Records(runs[s].ops)

====
